---- MODULE Spec2Model ----
(***************************************************************************)
(* wp-download: the transfer engine of wp_download/download.py, the       *)
(* language loop around it and the enabled options of wp_download/config.  *)
(*                                                                         *)
(* Spec is retrieve_files on a given list of URLs.  SpecLang is            *)
(* download_all_languages: for each enabled language the dump date is      *)
(* resolved (URLHandler.latest_dump_date), the directory created, the URLs *)
(* generated and handed to retrieve_files.  SpecConfig is                  *)
(* Configuration.enabled_options on the sections a file can hold.          *)
(*                                                                         *)
(* WPDownloader.retrieve_files walks a list of URLs; for each it takes the *)
(* skip decision (_should_skip_url), and otherwise runs the bounded retry  *)
(* loop (retrieve_file) around single transfer attempts (retrieve).  The   *)
(* local filesystem and the remote server are the environment: the server  *)
(* answers every request with one of the answers a real server can give.   *)
(*                                                                         *)
(* A file is a sequence of bytes.  The remote body of a file of content    *)
(* length L is <<1, 2, ..., L>>, so a byte's value is its position in the  *)
(* body; 0 is a byte of an older local file and 9 a byte the server sends  *)
(* past the advertised length.                                             *)
(*                                                                         *)
(* A response delivers its whole body unless the connection faults with an *)
(* error.  The progress bar of the progressbar package only reports and is *)
(* not part of the model.                                                  *)
(***************************************************************************)
EXTENDS Integers, Sequences, FiniteSets, TLC

\* Largest remote content length, in bytes.
MaxLen == 2
\* Largest value of the retries option.
MaxRetries == 2
\* Bytes per read; download.py:244 reads 8 * 1024 bytes, scaled to the model's files.
block_size == 1
\* Most requests of one run that the server or the network answers abnormally.
MaxFaults == 2

VARIABLES
    options,        \* resume, quiet, force, retries            (optparse options)
    urls,           \* the URLs handed to retrieve_files
    remote,         \* remote content length of each file name  (server)
    fs,             \* local filesystem: path -> file
    pc,             \* position in the code
    idx,            \* number of URLs taken from the iterable so far
    tries,          \* retrieve_file: tries
    offset,         \* retrieve: offset
    read,           \* retrieve: read
    content_length, \* retrieve: content_length
    remote_file,    \* retrieve: body bytes not yet read from the response
    outcome,        \* history: how each processed URL ended
    skip,           \* history: the last skip decision and what it saw
    attempt,        \* history: the current/last transfer attempt
    entry,          \* history: the files of the current URL when it was taken
    faults,         \* environment: abnormal answers given so far
    cfg,            \* the configuration file: section -> <<option, value>> pairs
    custom_dump,    \* options.custom_dump: <<language, date>> pairs
    listing,        \* server: the dump dates on each language's listing page
    dirs,           \* local filesystem: the directories that exist
    dir,            \* retrieve_files: path, the directory it saves to
    languages,      \* download_all_languages: the list it walks
    lidx,           \* download_all_languages: languages taken so far
    created,        \* history: the directory _create_download_dirs ensured
    resolve,        \* history: the last call of latest_dump_date
    opens,          \* history: listing pages opened, per language
    log,            \* history: how each language taken ended
    called          \* history: the last call of enabled_options

\* What the language layer adds to the state of the transfer engine.
outer == <<cfg, custom_dump, listing, dirs, dir, languages, lidx, created,
           resolve, opens, log, called>>

vars == <<options, urls, remote, fs, pc, idx, tries, offset, read,
          content_length, remote_file, outcome, skip, attempt, entry, faults,
          outer>>

----------------------------------------------------------------------------
\* Files and paths

NoFile == [exists |-> FALSE, data |-> <<>>]

File(bytes) == [exists |-> TRUE, data |-> bytes]

\* <<1, ..., n>>: the first n bytes of a remote body.
Prefix(n) == [i \in 1..n |-> i]

\* n bytes of an older file.
Zeros(n) == [i \in 1..n |-> 0]

Min(a, b) == IF a < b THEN a ELSE b

Names == {"a", "b"}

\* The directory retrieve_files saves to.
DownDir == <<"base", "en", 20230201>>

\* os.path.basename(url): the last segment of the URL.
basename(u) == u[Len(u)]

\* os.path.join(path, os.path.basename(url))
file_path(directory, u) == Append(directory, basename(u))

\* Mutant: the suffix is not added.
part_path_unsuffixed(p) == p

\* path + ".part"
part_path(p) == Append(p, ".part")

\* os.path.splitext(path): (root, ext), ext the last suffix if there is one.
splitext(p) ==
    IF Len(p) > 0 /\ p[Len(p)] = ".part"
    THEN <<SubSeq(p, 1, Len(p) - 1), p[Len(p)]>>
    ELSE <<p, "">>

Paths == { file_path(DownDir, <<n>>) : n \in Names }
           \cup { part_path(file_path(DownDir, <<n>>)) : n \in Names }

\* os.path.exists, os.path.getsize
exists(p) == fs[p].exists

getsize(p) == Len(fs[p].data)

\* os.rename(src, dst) on the filesystem f
rename(f, src, dst) ==
    IF src = dst THEN f
    ELSE [f EXCEPT ![dst] = f[src], ![src] = NoFile]

\* open(path, 'ab'): creates the file when absent, keeps its bytes otherwise.
open_append(f, p) ==
    IF f[p].exists THEN f ELSE [f EXCEPT ![p] = File(<<>>)]

\* local_file.write(block) on a file opened 'ab': the block goes to the end of
\* the file, wherever seek() has put the position.
write(f, p, block) == [f EXCEPT ![p] = File(f[p].data \o block)]

----------------------------------------------------------------------------
\* The server

\* The body the server holds for file name n.
Body(n) == Prefix(remote[n])

\* What opening a URL without a Range header can answer: the file with its
\* Content-Length, an HTTP error page, or a socket/I-O fault.
ProbeAnswers(n) ==
    { [fault |-> FALSE, code |-> 200, length |-> remote[n]],
      [fault |-> FALSE, code |-> 404, length |-> 0],
      [fault |-> TRUE,  code |-> 0,   length |-> 0] }

\* The answer of a healthy server over a healthy network.
ProbeNormal(ans) == ~ans.fault /\ ans.code = 200

\* What a request with 'Range: bytes=off-' can answer:
\*   range  206 and the body from byte off (the request is honoured; for
\*          off = 0 this is the whole body)
\*   full   200 and the whole body although off > 0 (the request is ignored)
\*   over   200 and more bytes than the content length
\*   error  an HTTP status >= 300 (404, or 416 for a start at or past the end)
\*   fault  a socket/I-O fault
RangeKinds == {"range", "full", "over", "error", "fault"}

RangeBody(n, off, kind) ==
    CASE kind = "range" -> SubSeq(Body(n), off + 1, remote[n])
      [] kind = "full"  -> Body(n)
      [] kind = "over"  -> Body(n) \o <<9>>
      [] OTHER          -> <<>>

RangeCode(kind) ==
    CASE kind = "range" -> 206
      [] kind = "error" -> 404
      [] OTHER          -> 200

\* A start at or past the end cannot be honoured: the server answers 416.
Unsatisfiable(n, off) == off > 0 /\ off >= remote[n]

RangePossible(n, off, kind) ==
    /\ kind = "range" => ~Unsatisfiable(n, off)
    /\ kind = "full" => off > 0

\* The answer of a healthy server over a healthy network.
RangeNormal(n, off, kind) ==
    IF Unsatisfiable(n, off) THEN kind = "error" ELSE kind = "range"

\* An abnormal answer is possible while the run's budget of them lasts.
Answer(normal) ==
    /\ normal \/ faults < MaxFaults
    /\ faults' = IF normal THEN faults ELSE faults + 1

----------------------------------------------------------------------------
\* Pure parts of WPDownloader

\* _remote_content_length on an answer that is no fault.
_remote_content_length(ans) ==
    IF ans.code >= 300 THEN 0 ELSE ans.length

\* Mutant: the force option is not looked at.
_should_skip_url_unforced(ex, size, length) ==
    ex /\ length = size

\* _should_skip_url, given whether the file exists, its size and the probed
\* remote content length.
_should_skip_url(ex, size, length) ==
    ex /\ (length = size /\ ~options.force)

\* Mutant: a remote file of exactly the local size is not resumed.
_offset_strict(ex, size, length) ==
    IF options.resume /\ ex /\ length > size THEN size ELSE 0

\* Mutant: the offset of the docstring, size(remote) - size(local).
_offset_remaining(ex, size, length) ==
    IF options.resume /\ ex /\ length >= size THEN length - size ELSE 0

\* _offset, given whether the file exists, its size and the probed remote
\* content length.
_offset(ex, size, length) ==
    IF options.resume /\ ex /\ length >= size THEN size ELSE 0

\* retrieve: the value of read before the first block.
initial_read(off) ==
    IF ~options.quiet /\ off # 0 THEN off ELSE 0

\* retrieve: the value of read after received bytes of the body, in a run
\* with the given setting of quiet: 'read = 0', 'read = offset' under
\* 'if not self._options.quiet' and 'if offset', 'read += len(block)'.
read_with(quiet, off, received) ==
    (IF ~quiet /\ off # 0 THEN off ELSE 0) + received

\* Mutant: one byte too many is let through.
overrun_late(r, cl) == r > cl + 1

\* retrieve: 'if read > content_length: raise DownloadError'
overrun(r, cl) == r > cl

\* Mutant: the limit is checked one attempt late.
retry_limit_late(t) == t > options.retries

\* retrieve_file: 'if tries == self._options.retries: raise DownloadError'
retry_limit(t) == t = options.retries

----------------------------------------------------------------------------
\* The state after construction

NoAttempt ==
    [n |-> 0, start |-> 0, kind |-> "none", existed0 |-> FALSE, size0 |-> 0,
     probed |-> FALSE, probed_length |-> 0, content_length |-> 0,
     received |-> 0, written |-> 0, result |-> "none"]

NoSkip ==
    [decided |-> FALSE, probed |-> FALSE, code |-> 0, length |-> 0, exists |-> FALSE, size |-> 0,
     result |-> FALSE]

\* A URL is its host, the language directory, the dump date and the file name.
Url(n) == <<"host", "en", 20230201, n>>

\* The URL lists retrieve_files is given: one file, or two files of which
\* the first, "b", was downloaded by an earlier run.
UrlLists == { <<Url("a")>>, <<Url("b"), Url("a")>> }

\* The files a destination path can hold before the run: none, an empty
\* file, or an older download of the largest size (the size of the remote
\* file or not, as the remote length varies).
FinalFiles == {NoFile, File(<<>>), File(Zeros(MaxLen))}

\* The files a '.part' path can hold before the run: none, or the bytes an
\* interrupted transfer left.
PartFiles == {NoFile} \cup { File(Prefix(k)) : k \in 0..MaxLen }

\* What a bare 'yield' hands to the consumer.
None == <<>>

\* The language layer before download_all_languages is called.
NoResolve ==
    [language |-> "", custom |-> FALSE, kind |-> "", seen |-> {},
     raised |-> FALSE, date |-> <<>>]

NoCall ==
    [section |-> "", pairs |-> <<>>, raised |-> FALSE, error |-> <<>>,
     value |-> <<>>]

Idle ==
    /\ cfg = [Files |-> <<>>, Languages |-> <<>>]
    /\ custom_dump = <<>>
    /\ listing = <<>>
    /\ languages = <<>>
    /\ lidx = 0
    /\ created = <<>>
    /\ resolve = NoResolve
    /\ opens = <<>>
    /\ log = <<>>
    /\ called = NoCall

Init ==
    /\ options \in [resume : BOOLEAN, quiet : BOOLEAN, force : BOOLEAN,
                    retries : 0..MaxRetries]
    /\ urls \in UrlLists
    /\ remote \in { r \in [Names -> 0..MaxLen] : r["b"] = 1 }
    /\ \E fa \in FinalFiles, pa \in PartFiles :
          fs = [p \in Paths |->
                  CASE p = file_path(DownDir, Url("a")) -> fa
                    [] p = part_path(file_path(DownDir, Url("a"))) -> pa
                    [] p = file_path(DownDir, Url("b")) -> File(Zeros(1))
                    [] OTHER -> NoFile]
    /\ pc = "files"
    /\ idx = 0
    /\ tries = 0
    /\ offset = 0
    /\ read = 0
    /\ content_length = 0
    /\ remote_file = <<>>
    /\ outcome = <<>>
    /\ skip = NoSkip
    /\ attempt = NoAttempt
    /\ entry = [final |-> NoFile, part |-> NoFile]
    /\ faults = 0
    /\ dir = DownDir
    /\ dirs = {DownDir}
    /\ Idle

----------------------------------------------------------------------------
\* retrieve_files

\* The URL being processed, its name on the server and its local paths.
url == urls[idx]

name == basename(url)

FilePath == file_path(dir, url)

\* retrieve_file: 'path = path + ".part"'
path == part_path(FilePath)

config == <<options, urls, remote, outer>>

env == <<options, urls, remote, faults, outer>>

locals == <<tries, offset, read, content_length, remote_file>>

\* 'for url in urls': take the next URL, or return when there is none.
NextUrl ==
    /\ pc = "files"
    /\ idx < Len(urls)
    /\ urls[idx + 1] # None
    /\ idx' = idx + 1
    /\ pc' = "should_skip"
    /\ entry' = [final |-> fs[file_path(dir, urls[idx + 1])],
                 part  |-> fs[part_path(file_path(dir, urls[idx + 1]))]]
    /\ skip' = NoSkip
    /\ attempt' = NoAttempt
    /\ UNCHANGED <<env, fs, locals, outcome>>

Return ==
    /\ pc = "files"
    /\ idx = Len(urls)
    /\ pc' = "done"
    /\ UNCHANGED <<env, fs, idx, locals, outcome, skip, attempt, entry>>

\* Mutant: the 'continue' is missing and the URL is retrieved all the same.
Skipped_without_continue ==
    /\ outcome' = Append(outcome, "Skipped")
    /\ pc' = "retrieve_file"
    /\ UNCHANGED <<fs, tries, offset, read, content_length, remote_file,
                   attempt>>

\* 'LOG.info(Skipped); continue': the URL is done, nothing is transferred.
Skipped ==
    /\ outcome' = Append(outcome, "Skipped")
    /\ pc' = "files"
    /\ UNCHANGED <<fs, locals, attempt>>

\* 'self.retrieve_file(url, file_path)': enter the retry loop with tries = 0.
EnterRetrieveFile ==
    /\ pc' = "retrieve_file"
    /\ tries' = 0
    /\ UNCHANGED <<fs, outcome, offset, read, content_length, remote_file,
                   attempt>>

\* 'if self._should_skip_url(url, file_path)' and the branch taken.
Decide(probed, code, length) ==
    /\ skip' = [decided |-> TRUE, probed |-> probed, code |-> code, length |-> length,
                exists |-> exists(FilePath), size |-> getsize(FilePath),
                result |-> _should_skip_url(exists(FilePath),
                                            getsize(FilePath), length)]
    /\ IF _should_skip_url(exists(FilePath), getsize(FilePath), length)
       THEN Skipped
       ELSE EnterRetrieveFile

\* No local file: 'if os.path.exists(path)' fails and no probe is made.
ShouldSkipNoFile ==
    /\ pc = "should_skip"
    /\ ~exists(FilePath)
    /\ Decide(FALSE, 0, 0)
    /\ UNCHANGED <<env, idx, entry>>

\* A local file: the remote content length is probed and compared.
ShouldSkipProbe ==
    /\ pc = "should_skip"
    /\ exists(FilePath)
    /\ \E ans \in ProbeAnswers(name) :
          /\ ~ans.fault
          /\ Answer(ProbeNormal(ans))
          /\ Decide(TRUE, ans.code, _remote_content_length(ans))
    /\ UNCHANGED <<config, idx, entry>>

\* The probe faults: the IOError is not caught in retrieve_files and leaves it.
ShouldSkipFault ==
    /\ pc = "should_skip"
    /\ exists(FilePath)
    /\ \E ans \in ProbeAnswers(name) : ans.fault /\ Answer(ProbeNormal(ans))
    /\ pc' = "io_error"
    /\ UNCHANGED <<config, fs, idx, locals, outcome, skip, attempt, entry>>

----------------------------------------------------------------------------
\* retrieve_file and retrieve

\* 'finally: tries += 1'
next_tries(t) == t + 1

\* An attempt ends with a caught error: socket.error, IOError or DownloadError
\* is logged, tries is counted up and the loop goes round.
Fail(att, err) ==
    /\ attempt' = [att EXCEPT !.result = err]
    /\ tries' = next_tries(tries)
    /\ pc' = "retrieve_file"
    /\ offset' = 0
    /\ read' = 0
    /\ content_length' = 0
    /\ remote_file' = <<>>

\* Mutant: retrieve_files does not catch the DownloadError, which leaves it.
RetryLimitExceeded_uncaught ==
    /\ pc = "retrieve_file"
    /\ retry_limit(tries)
    /\ outcome' = Append(outcome, "RetryLimitExceeded")
    /\ pc' = "download_error"
    /\ tries' = 0
    /\ UNCHANGED <<env, fs, idx, offset, read, content_length, remote_file,
                   skip, attempt, entry>>

\* 'if tries == retries: raise DownloadError(..., "Retry limit exceeded")',
\* caught by retrieve_files, which logs it and continues with the next URL.
RetryLimitExceeded ==
    /\ pc = "retrieve_file"
    /\ retry_limit(tries)
    /\ outcome' = Append(outcome, "RetryLimitExceeded")
    /\ pc' = "files"
    /\ tries' = 0
    /\ UNCHANGED <<env, fs, idx, offset, read, content_length, remote_file,
                   skip, attempt, entry>>

\* retrieve, first step: 'offset = self._offset(url, path)'.  The probe is made
\* only with resume on and a '.part' file present.
StartAttempt ==
    [NoAttempt EXCEPT !.n = attempt.n + 1,
                      !.written = attempt.written,
                      !.existed0 = exists(path),
                      !.size0 = getsize(path),
                      !.result = "running"]

RetrieveOffset ==
    /\ pc = "retrieve_file"
    /\ ~retry_limit(tries)
    /\ IF options.resume /\ exists(path)
       THEN \E ans \in ProbeAnswers(name) :
              /\ Answer(ProbeNormal(ans))
              /\ IF ans.fault
                 THEN /\ Fail(StartAttempt, "io")
                      /\ UNCHANGED fs
                 ELSE /\ offset' = _offset(exists(path), getsize(path),
                                           _remote_content_length(ans))
                      /\ attempt' = [StartAttempt EXCEPT
                            !.probed = TRUE,
                            !.probed_length = _remote_content_length(ans)]
                      /\ pc' = "open"
                      /\ UNCHANGED <<fs, tries, read, content_length,
                                     remote_file>>
       ELSE /\ offset' = _offset(exists(path), getsize(path), 0)
            /\ attempt' = StartAttempt
            /\ pc' = "open"
            /\ UNCHANGED <<fs, tries, read, content_length, remote_file, faults>>
    /\ UNCHANGED <<config, idx, outcome, skip, entry>>

\* retrieve, second step: the request with 'Range: bytes=<offset>-', the check
\* of the status code and 'open(path, "ab")'.
RetrieveOpen ==
    /\ pc = "open"
    /\ \E kind \in RangeKinds :
          /\ RangePossible(name, offset, kind)
          /\ Answer(RangeNormal(name, offset, kind))
          /\ LET att == [attempt EXCEPT !.start = offset, !.kind = kind]
             IN  CASE kind = "fault" ->
                        /\ Fail(att, "socket")
                        /\ UNCHANGED fs
                   [] RangeCode(kind) >= 300 ->
                        /\ Fail(att, "http")
                        /\ UNCHANGED fs
                   [] dir \notin dirs ->
                        /\ Fail(att, "io")
                        /\ UNCHANGED fs
                   [] OTHER ->
                        /\ attempt' = att
                        /\ remote_file' = RangeBody(name, offset, kind)
                        /\ fs' = open_append(fs, path)
                        /\ pc' = "length"
                        /\ UNCHANGED <<tries, offset, read, content_length>>
    /\ UNCHANGED <<config, idx, outcome, skip, entry>>

\* retrieve, third step: 'content_length = self._remote_content_length(url)'
\* and the start value of read.
RetrieveLength ==
    /\ pc = "length"
    /\ \E ans \in ProbeAnswers(name) :
          /\ Answer(ProbeNormal(ans))
          /\ IF ans.fault
             THEN Fail(attempt, "io")
             ELSE /\ content_length' = _remote_content_length(ans)
                  /\ read' = initial_read(offset)
                  /\ attempt' = [attempt EXCEPT
                        !.content_length = _remote_content_length(ans)]
                  /\ pc' = "reading"
                  /\ UNCHANGED <<tries, offset, remote_file>>
    /\ UNCHANGED <<config, fs, idx, outcome, skip, entry>>

\* 'for block in iter(lambda: remote_file.read(block_size), "")': one block is
\* read, written and counted; an overrun raises DownloadError.
ReadBlock ==
    /\ pc = "reading"
    /\ remote_file # <<>>
    /\ LET k     == Min(block_size, Len(remote_file))
           block == SubSeq(remote_file, 1, k)
           att   == [attempt EXCEPT !.received = @ + k, !.written = @ + k]
       IN  /\ fs' = write(fs, path, block)
           /\ IF overrun(read + k, content_length)
              THEN Fail(att, "overrun")
              ELSE /\ read' = read + k
                   /\ remote_file' = SubSeq(remote_file, k + 1, Len(remote_file))
                   /\ attempt' = att
                   /\ UNCHANGED <<pc, tries, offset, content_length>>
    /\ UNCHANGED <<env, idx, outcome, skip, entry>>

\* The connection breaks during a read: socket.error.
ReadFault ==
    /\ pc = "reading"
    /\ remote_file # <<>>
    /\ Answer(FALSE)
    /\ Fail(attempt, "socket")
    /\ UNCHANGED <<config, fs, idx, outcome, skip, entry>>

\* read() returns '': retrieve returns, retrieve_file renames the '.part' file
\* to the path without the suffix and leaves the loop.
Complete ==
    /\ pc = "reading"
    /\ remote_file = <<>>
    /\ fs' = rename(fs, path, splitext(path)[1])
    /\ attempt' = [attempt EXCEPT !.result = "ok"]
    /\ outcome' = Append(outcome, "Success")
    /\ pc' = "files"
    /\ tries' = 0
    /\ offset' = 0
    /\ read' = 0
    /\ content_length' = 0
    /\ UNCHANGED <<env, idx, remote_file, skip, entry>>

Next ==
    \/ NextUrl
    \/ Return
    \/ ShouldSkipNoFile
    \/ ShouldSkipProbe
    \/ ShouldSkipFault
    \/ RetryLimitExceeded
    \/ RetrieveOffset
    \/ RetrieveOpen
    \/ RetrieveLength
    \/ ReadBlock
    \/ ReadFault
    \/ Complete

Spec == Init /\ [][Next]_vars

\* The program is sequential and keeps running: a step that can be taken is
\* taken.
SpecLive == Spec /\ WF_vars(Next)

----------------------------------------------------------------------------
\* config.py: the enabled options of a section

\* Configuration.config_file_path
config_file_path == "wpdownloadrc"

FileOptions == {"a", "b"}

LanguageOptions == {"de", "en", "entities"}

\* The order of Python's string comparison on the option names.
rank == [a |-> 1, b |-> 2, de |-> 3, en |-> 4, entities |-> 5]

\* ConfigParser._boolean_states, which getboolean looks the value up in.
boolean_states == [yes |-> TRUE, on |-> TRUE, no |-> FALSE, off |-> FALSE]

\* The values an option is given: booleans and a value that is none.
Values == DOMAIN boolean_states \cup {"maybe"}

\* Mutant: a value that is no boolean counts as false.
getboolean_lenient(value) ==
    IF value \in DOMAIN boolean_states
    THEN [raised |-> FALSE, value |-> boolean_states[value]]
    ELSE [raised |-> FALSE, value |-> FALSE]

\* self.getboolean(section, opt): the boolean, or ValueError.
getboolean(value) ==
    IF value \in DOMAIN boolean_states
    THEN [raised |-> FALSE, value |-> boolean_states[value]]
    ELSE [raised |-> TRUE, value |-> FALSE]

RECURSIVE _enabled_options(_, _)
\* The generator inside enabled_options, run to its end: the options
\* yielded, or the ConfigValueError it raises at the first bad value.
_enabled_options(pairs, section) ==
    IF pairs = <<>>
    THEN [raised |-> FALSE, error |-> <<>>, value |-> <<>>]
    ELSE LET opt  == Head(pairs)[1]
             bool == getboolean(Head(pairs)[2])
             rest == _enabled_options(Tail(pairs), section)
         IN  IF bool.raised
             THEN [raised |-> TRUE, error |-> <<config_file_path, section>>,
                   value |-> <<>>]
             ELSE IF rest.raised
                  THEN rest
                  ELSE IF bool.value
                       THEN [rest EXCEPT !.value = <<opt>> \o rest.value]
                       ELSE rest

RECURSIVE insert(_, _)
insert(x, s) ==
    IF s = <<>>
    THEN <<x>>
    ELSE IF rank[x] <= rank[Head(s)]
         THEN <<x>> \o s
         ELSE <<Head(s)>> \o insert(x, Tail(s))

\* Mutant: the options stay in the order of the file.
sorted_as_read(s) == s

RECURSIVE sorted(_)
\* sorted(iterable) on option names
sorted(s) == IF s = <<>> THEN <<>> ELSE insert(Head(s), sorted(Tail(s)))

\* Configuration.enabled_options(section)
enabled_options(section) ==
    LET gen == _enabled_options(cfg[section], section)
    IN  [section |-> section, pairs |-> cfg[section], raised |-> gen.raised,
         error |-> gen.error,
         value |-> IF gen.raised THEN <<>> ELSE sorted(gen.value)]

enabled_files == enabled_options("Files")

enabled_languages == enabled_options("Languages")

RECURSIVE Orderings(_)
\* Every sequence that holds each element of S once, in some order.
Orderings(S) ==
    IF S = {}
    THEN {<<>>}
    ELSE UNION { { <<x>> \o t : t \in Orderings(S \ {x}) } : x \in S }

\* The sections a configuration file can hold for the option names in S:
\* some of the names, in any order, each with a value.
Sections(S) ==
    UNION { UNION { { [i \in 1..Len(o) |-> <<o[i], v[i]>>] :
                       v \in [1..Len(o) -> Values] } :
                    o \in Orderings(T) } :
            T \in SUBSET S }

\* A caller asks for the enabled files or the enabled languages.
EnabledFiles ==
    /\ pc = "config"
    /\ called' = enabled_files
    /\ UNCHANGED <<options, urls, remote, fs, pc, idx, locals, outcome, skip,
                   attempt, entry, faults, cfg, custom_dump, listing, dirs,
                   dir, languages, lidx, created, resolve, opens, log>>

EnabledLanguages ==
    /\ pc = "config"
    /\ called' = enabled_languages
    /\ UNCHANGED <<options, urls, remote, fs, pc, idx, locals, outcome, skip,
                   attempt, entry, faults, cfg, custom_dump, listing, dirs,
                   dir, languages, lidx, created, resolve, opens, log>>

\* Nothing of the transfer engine is running.
NoTransfer ==
    /\ options = [resume |-> TRUE, quiet |-> FALSE, force |-> FALSE,
                  retries |-> 1]
    /\ urls = <<>>
    /\ idx = 0
    /\ tries = 0
    /\ offset = 0
    /\ read = 0
    /\ content_length = 0
    /\ remote_file = <<>>
    /\ outcome = <<>>
    /\ skip = NoSkip
    /\ attempt = NoAttempt
    /\ entry = [final |-> NoFile, part |-> NoFile]
    /\ faults = 0

InitConfig ==
    /\ cfg \in [Files : Sections(FileOptions),
                Languages : Sections(LanguageOptions)]
    /\ pc = "config"
    /\ NoTransfer
    /\ remote = <<>>
    /\ fs = <<>>
    /\ dir = <<>>
    /\ dirs = {}
    /\ custom_dump = <<>>
    /\ listing = <<>>
    /\ languages = <<>>
    /\ lidx = 0
    /\ created = <<>>
    /\ resolve = NoResolve
    /\ opens = <<>>
    /\ log = <<>>
    /\ called = NoCall

NextConfig ==
    \/ EnabledFiles
    \/ EnabledLanguages

SpecConfig == InitConfig /\ [][NextConfig]_vars

----------------------------------------------------------------------------
\* URLHandler: dump dates and URLs

\* The date of the entry latest_dump_date appends to the dates of the page.
sentinel == 19000101

\* The dump dates a listing page can show, as the eight digits of the link.
DateTokens == {20230101, 20230201}

\* datetime.datetime.strptime(token, '%Y%m%d'): year, month, day
strptime(token) == <<token \div 10000, (token \div 100) % 100, token % 100>>

\* date.strftime('%Y%m%d')
strftime(date) == date[1] * 10000 + date[2] * 100 + date[3]

\* The order of datetime objects.
before(d, e) ==
    \/ d[1] < e[1]
    \/ d[1] = e[1] /\ d[2] < e[2]
    \/ d[1] = e[1] /\ d[2] = e[2] /\ d[3] < e[3]

\* Mutant: the earliest date is taken.
max_earliest(dates) == CHOOSE d \in dates : \A e \in dates : ~before(e, d)

\* max(dates)
max(dates) == CHOOSE d \in dates : \A e \in dates : ~before(d, e)

\* self._host, the base_url of the configuration
host == "host"

\* Mutant: every language has the directory of the template.
language_dir_of_template(language) == language

\* URLHandler.language_dir, with the template '${langcode}'
language_dir(language) ==
    IF language = "entities" THEN "wikidatawiki/entities" ELSE language

\* 'wikidata-%s-all.json.gz' % latest.strftime('%Y%m%d')
wikidata(token) ==
    CASE token = 19000101 -> "wikidata-19000101-all.json.gz"
      [] token = 20230101 -> "wikidata-20230101-all.json.gz"
      [] token = 20230201 -> "wikidata-20230201-all.json.gz"

\* Mutant: the file type is left out of the file name.
server_filename_of_language(language, latest, filename) ==
    IF language = "entities" THEN wikidata(strftime(latest)) ELSE "a"

\* The file name of a URL; the template file_format is '${filename}'.
server_filename(language, latest, filename) ==
    IF language = "entities" THEN wikidata(strftime(latest)) ELSE filename

\* The URLs urls_for_language yields once it has the date.
urls_for_language(language, latest, filetypes) ==
    [i \in 1..Len(filetypes) |->
        <<host, language_dir(language), strftime(latest),
          server_filename(language, latest, filetypes[i])>>]

\* dict(pair.split(':', 1) for pair in self._custom_dump): the last pair of
\* a language is the one that counts.
custom_dates ==
    [l \in { custom_dump[i][1] : i \in 1..Len(custom_dump) } |->
        LET last == CHOOSE i \in 1..Len(custom_dump) :
                       /\ custom_dump[i][1] = l
                       /\ \A j \in 1..Len(custom_dump) :
                             custom_dump[j][1] = l => j <= i
        IN  custom_dump[last][2]]

\* What opening a listing page gives: the page, the page of an HTTP error
\* (FancyURLopener hands it over like any page), or an IOError.
ListingKinds == {"page", "error", "fault"}

\* self._date_matcher.findall(lang_site.read())
dump_dates(kind, seen) == IF kind = "page" THEN seen ELSE {}

\* Mutant: the listing page is read although the language has a custom date.
latest_dump_date_of_page(language, kind, seen) ==
    IF kind = "fault"
    THEN [language |-> language, custom |-> FALSE, kind |-> kind,
          seen |-> seen, raised |-> TRUE, date |-> <<>>]
    ELSE [language |-> language, custom |-> FALSE, kind |-> kind,
          seen |-> seen, raised |-> FALSE,
          date |-> max({ strptime(t) : t \in dump_dates(kind, seen) }
                          \cup {strptime(sentinel)})]

\* URLHandler.latest_dump_date(language), the listing page answering with
\* kind and showing the dates seen
latest_dump_date(language, kind, seen) ==
    IF language \in DOMAIN custom_dates
    THEN [language |-> language, custom |-> TRUE, kind |-> "", seen |-> {},
          raised |-> FALSE, date |-> strptime(custom_dates[language])]
    ELSE IF kind = "fault"
         THEN [language |-> language, custom |-> FALSE, kind |-> kind,
               seen |-> seen, raised |-> TRUE, date |-> <<>>]
         ELSE [language |-> language, custom |-> FALSE, kind |-> kind,
               seen |-> seen, raised |-> FALSE,
               date |-> max({ strptime(t) : t \in dump_dates(kind, seen) }
                               \cup {strptime(sentinel)})]

\* The dates a listing page shows when it is opened: those it showed
\* before, or those and a dump published since.
Seen(language) ==
    {listing[language]} \cup { listing[language] \cup {t} : t \in DateTokens }

\* One call of latest_dump_date and what it does to the environment.
Resolving(language, r) ==
    /\ \E kind \in ListingKinds, seen \in Seen(language) :
          r = latest_dump_date(language, kind, seen)
    /\ resolve' = r
    /\ IF r.custom
       THEN UNCHANGED <<listing, opens, faults>>
       ELSE /\ r.kind # "page" => faults < MaxFaults
            /\ faults' = IF r.kind = "page" THEN faults ELSE faults + 1
            /\ listing' = [listing EXCEPT ![language] = r.seen]
            /\ opens' = [opens EXCEPT ![language] = @ + 1]

\* The results a call of latest_dump_date(language) can have now.
Resolutions(language) ==
    { latest_dump_date(language, kind, seen) :
        kind \in ListingKinds, seen \in Seen(language) }

----------------------------------------------------------------------------
\* WPDownloader: download_all_languages and download_language

base == "base"

\* os.path.join(path, language, latest_dump_date(language).strftime('%Y%m%d'))
_download_directory(language, date) == <<base, language, strftime(date)>>

\* The language being processed.
lang == languages[lidx]

transfer == <<options, remote, fs, idx, tries, offset, read, content_length,
              remote_file, outcome, skip, attempt, entry>>

\* 'for lang in self._config.enabled_languages()': the list is built, or
\* the ConfigValueError leaves download_all_languages.
DownloadAllLanguages ==
    /\ pc = "all"
    /\ called' = enabled_languages
    /\ IF enabled_languages.raised
       THEN /\ pc' = "config_error"
            /\ UNCHANGED languages
       ELSE /\ pc' = "languages"
            /\ languages' = enabled_languages.value
    /\ UNCHANGED <<transfer, urls, faults, cfg, custom_dump, listing, dirs, dir,
                   lidx, created, resolve, opens, log>>

\* Mutant: the next language is started while files of this one are to come.
NextLanguage_early ==
    /\ pc \in {"languages", "files"}
    /\ lidx < Len(languages)
    /\ lidx' = lidx + 1
    /\ pc' = "create_dirs"
    /\ created' = <<>>
    /\ dir' = <<>>
    /\ urls' = <<>>
    /\ idx' = 0
    /\ outcome' = <<>>
    /\ skip' = NoSkip
    /\ attempt' = NoAttempt
    /\ UNCHANGED <<options, remote, fs, locals, entry, faults, cfg, custom_dump,
                   listing, dirs, languages, resolve, opens, log, called>>

\* The loop takes the next language and calls download_language.
NextLanguage ==
    /\ pc = "languages"
    /\ lidx < Len(languages)
    /\ lidx' = lidx + 1
    /\ pc' = "create_dirs"
    /\ created' = <<>>
    /\ dir' = <<>>
    /\ urls' = <<>>
    /\ idx' = 0
    /\ outcome' = <<>>
    /\ skip' = NoSkip
    /\ attempt' = NoAttempt
    /\ UNCHANGED <<options, remote, fs, locals, entry, faults, cfg, custom_dump,
                   listing, dirs, languages, resolve, opens, log, called>>

\* The loop is through: download_all_languages returns.
ReturnAll ==
    /\ pc = "languages"
    /\ lidx = Len(languages)
    /\ pc' = "returned"
    /\ UNCHANGED <<transfer, urls, faults, outer>>

\* _create_download_dirs: the date is resolved and the directory looked for.
CreateDownloadDirs ==
    /\ pc = "create_dirs"
    /\ \E r \in Resolutions(lang) :
          /\ Resolving(lang, r)
          /\ IF r.raised
             THEN /\ pc' = "io_error"
                  /\ UNCHANGED created
             ELSE /\ created' = _download_directory(lang, r.date)
                  /\ pc' = IF _download_directory(lang, r.date) \in dirs
                           THEN "download_directory"
                           ELSE "makedirs"
    /\ UNCHANGED <<transfer, urls, cfg, custom_dump, dirs, dir, languages, lidx,
                   log, called>>

\* os.makedirs(down_dir) creates the directory.
MakeDirs ==
    /\ pc = "makedirs"
    /\ dirs' = dirs \cup {created}
    /\ pc' = "download_directory"
    /\ UNCHANGED <<transfer, urls, faults, cfg, custom_dump, listing, dir,
                   languages, lidx, created, resolve, opens, log, called>>

\* os.makedirs(down_dir) raises OSError, which is no IOError: nothing
\* catches it.
MakeDirsFails ==
    /\ pc = "makedirs"
    /\ faults < MaxFaults
    /\ faults' = faults + 1
    /\ pc' = "abort"
    /\ UNCHANGED <<transfer, urls, cfg, custom_dump, listing, dirs, dir,
                   languages, lidx, created, resolve, opens, log, called>>

\* 'self._download_directory(language, path)', the second argument of
\* retrieve_files: the date is resolved again.
DownloadDirectory ==
    /\ pc = "download_directory"
    /\ \E r \in Resolutions(lang) :
          /\ Resolving(lang, r)
          /\ IF r.raised
             THEN /\ pc' = "io_error"
                  /\ UNCHANGED dir
             ELSE /\ dir' = _download_directory(lang, r.date)
                  /\ pc' = "urls_for_language"
    /\ UNCHANGED <<transfer, urls, cfg, custom_dump, dirs, languages, lidx,
                   created, log, called>>

\* What the generator yields after the IOError of latest_dump_date: one None.
urls_after_error == <<None>>

\* The generator urls_for_language starts when retrieve_files asks for the
\* first URL: the date is resolved a third time and the URLs are built.
UrlsForLanguage ==
    /\ pc = "urls_for_language"
    /\ \E r \in Resolutions(lang) :
          /\ Resolving(lang, r)
          /\ IF r.raised
             THEN /\ urls' = urls_after_error
                  /\ pc' = "files"
                  /\ UNCHANGED called
             ELSE /\ called' = enabled_files
                  /\ IF enabled_files.raised
                     THEN /\ pc' = "config_error"
                          /\ UNCHANGED urls
                     ELSE /\ pc' = "files"
                          /\ urls' = urls_for_language(lang, r.date,
                                                       enabled_files.value)
    /\ UNCHANGED <<transfer, cfg, custom_dump, dirs, dir, languages, lidx,
                   created, log>>

\* 'os.path.basename(url)' with the None of the generator: AttributeError,
\* which nothing catches.
NextUrlNone ==
    /\ pc = "files"
    /\ idx < Len(urls)
    /\ urls[idx + 1] = None
    /\ idx' = idx + 1
    /\ pc' = "abort"
    /\ UNCHANGED <<env, fs, locals, outcome, skip, attempt, entry>>

\* download_language returns: the loop goes on.
LanguageDone ==
    /\ pc = "done"
    /\ log' = Append(log, <<lang, "done">>)
    /\ pc' = "languages"
    /\ UNCHANGED <<transfer, urls, faults, cfg, custom_dump, listing, dirs, dir,
                   languages, lidx, created, resolve, opens, called>>

\* 'except IOError: LOG.error(...); continue'
LanguageFailed ==
    /\ pc = "io_error"
    /\ log' = Append(log, <<lang, "failed">>)
    /\ pc' = "languages"
    /\ UNCHANGED <<transfer, urls, faults, cfg, custom_dump, listing, dirs, dir,
                   languages, lidx, created, resolve, opens, called>>

\* Every local path of the language layer.
AllNames == Names \cup { wikidata(t) : t \in DateTokens \cup {sentinel} }

LangPaths ==
    LET tokens == DateTokens \cup {sentinel}
        finals == { <<base, l, t, n>> : l \in LanguageOptions \ {"entities"},
                       t \in tokens, n \in Names }
                  \cup { <<base, "entities", t, wikidata(u)>> :
                            t \in tokens, u \in tokens }
    IN  finals \cup { part_path(p) : p \in finals }

\* The configuration files of the runs: two languages with two files or
\* one, and a value that is no boolean in either section.
LangConfigs ==
    { [Files     |-> << <<"b", "yes">>, <<"a", "on">> >>,
       Languages |-> << <<"en", "yes">>, <<"de", "on">> >>],
      [Files     |-> << <<"a", "yes">>, <<"b", "on">> >>,
       Languages |-> << <<"entities", "yes">>, <<"en", "on">>,
                        <<"de", "no">> >>],
      [Files     |-> << <<"a", "maybe">> >>,
       Languages |-> << <<"en", "yes">> >>],
      [Files     |-> << <<"a", "yes">> >>,
       Languages |-> << <<"en", "maybe">> >>] }

\* The listing pages before the run: no dump of de yet.
Listing0 == [l \in LanguageOptions |-> IF l = "de" THEN {} ELSE {20230101}]

\* An earlier run left a download of en's file "a" of the dump 20230201.
EarlierRun == {{}, {DownDir}}

InitLang ==
    /\ cfg \in LangConfigs
    /\ custom_dump \in { <<>>, << <<"en", 20230201>>, <<"en", 20230101>> >> }
    /\ listing = Listing0
    /\ options = [resume |-> TRUE, quiet |-> FALSE, force |-> FALSE,
                  retries |-> 1]
    /\ remote = [n \in AllNames |-> 1]
    /\ dirs \in EarlierRun
    /\ fs = [p \in LangPaths |->
               IF p = file_path(DownDir, Url("a")) /\ DownDir \in dirs
               THEN File(Zeros(1))
               ELSE NoFile]
    /\ pc = "all"
    /\ urls = <<>>
    /\ idx = 0
    /\ tries = 0
    /\ offset = 0
    /\ read = 0
    /\ content_length = 0
    /\ remote_file = <<>>
    /\ outcome = <<>>
    /\ skip = NoSkip
    /\ attempt = NoAttempt
    /\ entry = [final |-> NoFile, part |-> NoFile]
    /\ faults = 0
    /\ dir = <<>>
    /\ languages = <<>>
    /\ lidx = 0
    /\ created = <<>>
    /\ resolve = NoResolve
    /\ opens = [l \in LanguageOptions |-> 0]
    /\ log = <<>>
    /\ called = NoCall

NextLang ==
    \/ DownloadAllLanguages
    \/ NextLanguage
    \/ ReturnAll
    \/ CreateDownloadDirs
    \/ MakeDirs
    \/ MakeDirsFails
    \/ DownloadDirectory
    \/ UrlsForLanguage
    \/ NextUrlNone
    \/ LanguageDone
    \/ LanguageFailed
    \/ Next

SpecLang == InitLang /\ [][NextLang]_vars

\* The positions inside retrieve_files.
InRetrieveFiles ==
    pc \in {"files", "should_skip", "retrieve_file", "open", "length",
            "reading", "done"}

\* The positions inside retrieve, where a transfer is under way.
InRetrieve == pc \in {"open", "length", "reading"}

----------------------------------------------------------------------------
\* Properties

\* The URL taken last has ended with outcome o.
Ended(o) == idx > 0 /\ Len(outcome) = idx /\ outcome[idx] = o

\* C1: whenever retrieve_file ends with success (after k < retries failed
\* attempts), the destination path holds the complete remote file and no
\* '.part' file remains.
C1_CompleteAfterRetries ==
    (Ended("Success") /\ attempt.n - 1 < options.retries) =>
        /\ fs[FilePath] = File(Body(name))
        /\ ~exists(path)

\* C2: when every attempt fails, exactly retries attempts are made before
\* 'Retry limit exceeded'; the destination path is as it was and the '.part'
\* file holds what it held plus every byte written.
C2_RetryLimit ==
    /\ attempt.n <= options.retries
    /\ Ended("RetryLimitExceeded") =>
        /\ attempt.n = options.retries
        /\ fs[FilePath] = entry.final
        /\ (entry.part.exists \/ attempt.written > 0) => exists(path)
        /\ getsize(path) = Len(entry.part.data) + attempt.written
        /\ SubSeq(fs[path].data, 1, Len(entry.part.data)) = entry.part.data

C2_Witness ==
    /\ Ended("RetryLimitExceeded")
    /\ options.retries = 2
    /\ attempt.written > 0
    /\ ~entry.part.exists

\* C3: the URL is skipped if and only if a local file exists, its size equals
\* the probed remote content length and force is off.
C3_SkipIff ==
    skip.decided =>
        /\ skip.probed =>
              skip.length = (IF skip.code >= 300 THEN 0 ELSE remote[name])
        /\ Ended("Skipped") <=>
              /\ entry.final.exists
              /\ Len(entry.final.data) = skip.length
              /\ ~options.force
        /\ options.force => ~Ended("Skipped")

C3_Witness ==
    /\ Ended("Skipped")
    /\ skip.probed
    /\ skip.size > 0

\* C4: a probe answered with a status >= 300 never leads to a skip.
C4_NoSkipOnHttpError ==
    (skip.decided /\ skip.probed /\ skip.code >= 300 /\ ~options.force)
        => ~Ended("Skipped")

\* C5: the skip decision comes before any transfer step, and a skipped URL
\* sees no transfer attempt: no request with a Range header, no change to the
\* '.part' file or to the local file, and the loop goes on.
C5_SkipTransfersNothing ==
    /\ pc = "should_skip" => attempt = NoAttempt
    /\ (skip.decided /\ skip.result) => Ended("Skipped")
    /\ Ended("Skipped") =>
          /\ attempt = NoAttempt
          /\ fs[FilePath] = entry.final
          /\ fs[path] = entry.part
          /\ pc \in {"files", "done"}

C5_Witness ==
    /\ Ended("Skipped")
    /\ pc = "files"
    /\ idx < Len(urls)

C8_Overrun ==
    /\ attempt.received > attempt.content_length => attempt.result = "overrun"
    /\ attempt.result = "ok" => attempt.received <= attempt.content_length

C8_Witness ==
    /\ attempt.result = "overrun"
    /\ attempt.kind = "over"
    /\ attempt.received = attempt.content_length + 1
    /\ attempt.content_length > 0

\* C9: an attempt that resumes from an offset > 0 and gets the whole body
\* again, the range being ignored, never ends as a success.
C9_ResentBodyRejected ==
    (attempt.start > 0 /\ attempt.size0 > 0 /\ attempt.kind = "full")
        => attempt.result # "ok"

\* C10: the file at a destination path changes only in the rename that
\* follows an attempt that returned without error; every other change of the
\* filesystem is to a '.part' path.
C10_Step ==
    \A p \in Paths :
        (fs'[p] # fs[p] /\ p[Len(p)] # ".part") =>
            /\ pc = "reading"
            /\ remote_file = <<>>
            /\ attempt.result = "running"
            /\ attempt'.result = "ok"
            /\ p = FilePath
            /\ fs'[p] = fs[part_path(p)]
            /\ ~fs'[part_path(p)].exists

C10_RenameOnly == [][C10_Step]_vars

C10_Witness ==
    /\ Ended("Success")
    /\ entry.final.exists
    /\ fs[FilePath] # entry.final

\* C11: a URL that ends with the DownloadError of the retry limit does not
\* end the loop: every URL taken gets one outcome, in the order of the list,
\* and after an outcome the loop is at its head with the later URLs to come.
C11_NextUrlAfterDownloadError ==
    /\ Len(outcome) \in {idx - 1, idx}
    /\ idx <= Len(urls)
    /\ (idx > 0 /\ Len(outcome) = idx /\ idx < Len(urls)) => pc = "files"
    /\ Ended("RetryLimitExceeded") => pc \in {"files", "done"}
    /\ pc = "done" => Len(outcome) = Len(urls)

C11_Witness ==
    /\ pc = "done"
    /\ Len(urls) = 2
    /\ outcome[1] = "RetryLimitExceeded"
    /\ outcome[2] = "Success"

\* C19: enabled_files() and enabled_languages() return the options of their
\* section whose value is a boolean true, each once and in ascending order;
\* an option set to false is not among them.
C19_EnabledSorted ==
    (called.section # "" /\ ~called.raised) =>
        LET pairs == called.pairs
            on    == { i \in 1..Len(pairs) : pairs[i][2] \in {"yes", "on"} }
            value == called.value
        IN  /\ called.section \in {"Files", "Languages"}
            /\ pairs = cfg[called.section]
            /\ { value[i] : i \in 1..Len(value) } = { pairs[i][1] : i \in on }
            /\ Len(value) = Cardinality(on)
            /\ \A i \in 1..Len(value) - 1 : rank[value[i]] < rank[value[i + 1]]
            /\ \A i \in 1..Len(pairs) :
                  pairs[i][2] \in {"no", "off"} =>
                      \A j \in 1..Len(value) : value[j] # pairs[i][1]

\* Two enabled options that the file names in descending order, and one
\* that is switched off.
C19_Witness ==
    /\ called.section = "Languages"
    /\ ~called.raised
    /\ Len(called.value) = 2
    /\ Len(called.pairs) = 3
    /\ rank[called.pairs[1][1]] > rank[called.pairs[3][1]]
    /\ called.pairs[1][2] = "on"
    /\ called.pairs[3][2] = "yes"
    /\ called.pairs[2][2] = "off"

\* C20: enabled_files() and enabled_languages() raise ConfigValueError with
\* the path of the configuration file and the name of the section when an
\* option of the section has a value that is no boolean, and return no list.
C20_ConfigValueError ==
    called.section # "" =>
        ((\E i \in 1..Len(called.pairs) :
              called.pairs[i][2] \notin {"yes", "on", "no", "off"})
         => /\ called.raised
            /\ called.error = <<config_file_path, called.section>>
            /\ called.value = <<>>)

\* The bad value comes after an enabled option.
C20_Witness ==
    /\ called.section = "Files"
    /\ called.raised
    /\ Len(called.pairs) = 2
    /\ called.pairs[1][2] = "yes"
    /\ called.pairs[2][2] = "maybe"

\* C12: download_all_languages is never left by the failure of a language:
\* no error escapes it, and when it returns every enabled language has been
\* taken and has ended, done or skipped.
C12_LanguageFailureCaught ==
    /\ pc # "abort"
    /\ pc = "returned" => (lidx = Len(languages) /\ Len(log) = Len(languages))

\* C13: after an IOError of the date resolution in urls_for_language the
\* sequence of URLs is empty: it holds no element, a None neither.
C13_EmptyAfterIOError ==
    (InRetrieveFiles /\ resolve.raised) => urls = <<>>

C16_CustomDate ==
    \A i \in 1..Len(custom_dump) :
        LET l == custom_dump[i][1]
        IN  /\ opens[l] = 0
            /\ (resolve.language = l
                /\ \A j \in 1..Len(custom_dump) : custom_dump[j][1] = l => j <= i)
               => /\ resolve.custom
                  /\ ~resolve.raised
                  /\ resolve.date[1] * 10000 + resolve.date[2] * 100
                        + resolve.date[3] = custom_dump[i][2]

\* The URLs of en carry the custom date while its listing page, unread,
\* shows another.
C16_Witness ==
    /\ pc = "files"
    /\ lang = "en"
    /\ resolve.language = "en"
    /\ resolve.custom
    /\ resolve.date = <<2023, 1, 1>>
    /\ Len(custom_dump) = 2
    /\ Len(urls) > 0
    /\ urls[1][3] = 20230101
    /\ Len(log) = 1

\* C17: while a transfer is under way, the directory it saves to is
\* base/language/date with the date of the URL, and it is the directory
\* that _create_download_dirs ensured at the start.
C17_LocalPath ==
    InRetrieve =>
        /\ dir = <<"base", lang, url[3]>>
        /\ dir = created
        /\ dir \in dirs

\* C18: the languages are taken in the order of enabled_languages() and one
\* after the other, each only when the one before has ended; the files are
\* taken in the order of the URLs, each only when the one before has its
\* outcome.
C18_Step ==
    /\ languages' # languages =>
          (lidx = 0 /\ languages' = enabled_languages.value)
    /\ lidx' # lidx =>
          /\ lidx' = lidx + 1
          /\ pc = "languages"
          /\ Len(log) = lidx
    /\ log' # log =>
          /\ Len(log') = lidx
          /\ SubSeq(log', 1, Len(log)) = log
          /\ log'[lidx][1] = languages[lidx]
          /\ pc \in {"done", "io_error"}
          /\ pc = "done" => (idx = Len(urls) /\ Len(outcome) = Len(urls))
    /\ idx' # idx =>
          \/ idx' = idx + 1 /\ pc = "files" /\ Len(outcome) = idx
          \/ idx' = 0 /\ lidx' = lidx + 1
    /\ outcome' # outcome =>
          \/ outcome' = <<>> /\ lidx' = lidx + 1
          \/ Len(outcome') = idx /\ SubSeq(outcome', 1, Len(outcome)) = outcome

C18_Order == [][C18_Step]_vars

\* The second language is through its second file.
C18_Witness ==
    /\ pc = "done"
    /\ lidx = 2
    /\ Len(log) = 1
    /\ Len(urls) = 2
    /\ Len(outcome) = 2

\* C21: every URL taken from the list goes from the skip decision to exactly
\* one of the ends Skipped, Success or RetryLimitExceeded: once it is taken,
\* its outcome is recorded at some time.
C21_ReachesTerminal ==
    [](pc = "should_skip" =>
          <>(IF idx > 0 /\ Len(outcome) = idx
             THEN outcome[idx] \in {"Skipped", "Success", "RetryLimitExceeded"}
             ELSE FALSE))

\* C22: when retrieve_file has renamed the '.part' file to the destination
\* path, the size of the file is the content length probed in the attempt
\* that succeeded.
C22_CompletedSize ==
    Ended("Success") => getsize(FilePath) = attempt.content_length

\* C23: two runs of retrieve that differ only in quiet and have seen the
\* same local file and the same responses compare the same byte count with
\* the content length and take the same decision on the next block, so they
\* end alike and leave the same '.part' file.
C23_QuietOnlyReporting ==
    (pc = "reading" /\ remote_file # <<>>) =>
        LET k == Min(block_size, Len(remote_file))
        IN  /\ read = read_with(options.quiet, offset, attempt.received)
            /\ read_with(TRUE, offset, attempt.received)
                  = read_with(FALSE, offset, attempt.received)
            /\ overrun(read_with(TRUE, offset, attempt.received) + k,
                       content_length)
                  = overrun(read_with(FALSE, offset, attempt.received) + k,
                            content_length)

\* C24 as claimed: the URLs urls_for_language yields for a language are
\* pairwise distinct, for 'entities' as for any other language.
C24_DistinctUrls ==
    (InRetrieveFiles /\ ~resolve.raised) =>
        \A i, j \in 1..Len(urls) : i # j => urls[i] # urls[j]

\* C24 as amended: the URLs of a language other than 'entities' are pairwise
\* distinct, and so are the destination paths; the URLs of 'entities' are
\* one and the same URL, once for each enabled file type.
C24_DistinctUnlessEntities ==
    (InRetrieveFiles /\ ~resolve.raised) =>
        \A i, j \in 1..Len(urls) :
            i # j =>
                IF lang = "entities"
                THEN urls[i] = urls[j]
                ELSE /\ urls[i] # urls[j]
                     /\ file_path(dir, urls[i]) # file_path(dir, urls[j])

\* Both files of a language other than 'entities' have reached their end.
C24_Witness ==
    /\ pc = "done"
    /\ lang = "de"
    /\ Len(urls) = 2
    /\ outcome = <<"Success", "Success">>

====
